---- MODULE Spec2Model ----
(***************************************************************************)
(* handcake: a Lua scripting host that forwards MIDI messages from an      *)
(* mpsc channel (MESSAGE) into the script callback on_midi_recv.           *)
(* Model of src/src/main.rs: the bootstrap sequence of main, the dispatch  *)
(* thread spawned by main, and the translation of a MidiMessage into the   *)
(* Lua table handed to the callback.                                       *)
(***************************************************************************)
EXTENDS Integers, Sequences, FiniteSets, TLC

VARIABLES
    mainPc,       \* position of the main thread in main()
    exited,       \* the process has terminated
    exitCode,     \* its exit code (meaningful once exited)
    fatal,        \* why bootstrap ended the process ("none" while it has not)
    uinput,       \* the uinput handle has been opened
    luaMade,      \* mlua::Lua::new() has run
    registered,   \* the api modules registered so far, in order
    scriptRan,    \* the script's top-level chunk has started executing
    topDone,      \* the script's top-level chunk has finished successfully
    onScriptInit, \* the global on_script_init is a function
    initCalls,    \* argument lists of the calls made to on_script_init
    onMidiRecv,   \* the global on_midi_recv: 0 = not a function, 1.. = a function
    luaLock,      \* holder of the Arc<Mutex<Lua>>
    recvLock,     \* holder of the Mutex around the Receiver
    dPc,          \* position of the dispatch thread
    cur,          \* the message the dispatch thread is processing
    handler,      \* the function value fetched for the current message
    tab,          \* the Lua table built for the current message
    queue,        \* the messages in the channel
    started,      \* the producer threads that exist
    pushed,       \* number of messages each producer has sent
    senders,      \* who holds the Sender end: 0 = the static MESSAGE, p = a producer
    fates,        \* history: every dequeued message and what became of it
    delivered,    \* history: every call made to on_midi_recv
    active,       \* number of on_midi_recv invocations in progress
    tmsg,         \* SpecTranslate: the message under translation
    tout          \* SpecTranslate: the outcome and its table
vars == <<mainPc, exited, exitCode, fatal, uinput, luaMade, registered,
          scriptRan, topDone, onScriptInit, initCalls, onMidiRecv, luaLock,
          recvLock, dPc, cur, handler, tab, queue, started, pushed, senders,
          fates, delivered, active, tmsg, tout>>

mainVars == <<mainPc, exited, exitCode, fatal, uinput, luaMade, registered,
              scriptRan, topDone, onScriptInit, initCalls>>
dispVars == <<luaLock, recvLock, dPc, cur, handler, tab, fates, delivered,
              active>>
busVars == <<queue, started, pushed, senders>>
trVars == <<tmsg, tout>>

----------------------------------------------------------------------------
(* Bounds *)
NumProducers == 2
MaxMsgs == 3

(* Program constants *)
U8Max == 255
U16Mod == 65536
PitchShift == 8
ExitFatal == 1
ExitPanic == 101

Producers == 1..NumProducers
\* the function values on_midi_recv can hold: the original and a replacement
Handlers == {1, 2}

----------------------------------------------------------------------------
(* MidiMessage *)
AllKinds == {"Invalid", "NoteOn", "NoteOff", "PolyKeyPressure",
             "ControlChange", "ProgramChange", "ChannelPressure",
             "PitchBend", "SysEx"}

Midi(k, c, a, b) == [kind |-> k, ch |-> c, d1 |-> a, d2 |-> b]

NoMsg == [kind |-> "None", ch |-> 0, d1 |-> 0, d2 |-> 0, src |-> 0, n |-> 0]

\* the five variants the dispatch thread translates
ValidKinds == {"NoteOn", "NoteOff", "ControlChange", "ProgramChange",
               "PitchBend"}

\* Channel::Ch1 .. Channel::Ch16
Channels == 1..16
\* the values of a u8 field
Bytes == 0..U8Max
\* the u8 values SpecTranslate tries for every variant
ByteSamples == {0, 1, 18, 52, 60, 100, 127, 128, 255}

\* the messages SpecTranslate translates: every variant on every
\* channel with the sampled bytes, and pitch-bend with every pair of bytes
TranslateInput(m) ==
    \/ \E k \in AllKinds \ {"Invalid", "SysEx"}, c \in Channels,
          a \in ByteSamples, b \in ByteSamples : m = Midi(k, c, a, b)
    \/ \E a \in Bytes, b \in Bytes : m = Midi("PitchBend", 1, a, b)
    \/ m = Midi("Invalid", 0, 0, 0)
    \/ m = Midi("SysEx", 0, 0, 0)

\* the messages the producers send
BusPayloads == {Midi("NoteOn", 1, 60, 100),
                Midi("Invalid", 0, 0, 0),
                Midi("SysEx", 0, 0, 0)}

\* util::midi_channel_to_num: Channel::Ch1..Ch16 to 0..15
midi_channel_to_num(c) == c - 1

RECURSIVE BitOr(_, _)
BitOr(x, y) ==
    IF x = 0 THEN y
    ELSE IF y = 0 THEN x
    ELSE (IF (x % 2 = 1) \/ (y % 2 = 1) THEN 1 ELSE 0)
         + 2 * BitOr(x \div 2, y \div 2)

\* (x as u16) << s
Shl16(x, s) == (x * (2 ^ s)) % U16Mod

\* let true_val: u16 = ((*msb as u16) << 8) | *lsb as u16;
PitchValueShift7(lsb, msb) == BitOr(Shl16(msb % U16Mod, 7), lsb % U16Mod)
PitchValue(lsb, msb) == BitOr(Shl16(msb % U16Mod, PitchShift), lsb % U16Mod)

\* lua.create_table()
EmptyTab == [k \in {} |-> 0]

\* tab.set(k, v)
Set(t, k, v) == [x \in (DOMAIN t) \cup {k} |-> IF x = k THEN v ELSE t[x]]

\* the arms of `match &midi` that build a table
CoveredAll(k) == k \in AllKinds
Covered(k) == k \in {"NoteOn", "NoteOff", "ControlChange", "ProgramChange",
                     "PitchBend"}

TranslateNoIsNote(m) ==
    CASE m.kind = "NoteOn" ->
           Set(Set(Set(Set(EmptyTab, "event", "note_on"),
               "channel", midi_channel_to_num(m.ch)), "key", m.d1), "vel", m.d2)
      [] m.kind = "NoteOff" ->
           Set(Set(Set(Set(EmptyTab, "event", "note_off"),
               "channel", midi_channel_to_num(m.ch)), "key", m.d1), "vel", m.d2)
      [] m.kind = "ControlChange" ->
           Set(Set(Set(Set(EmptyTab, "event", "control_change"),
               "channel", midi_channel_to_num(m.ch)), "control", m.d1),
               "value", m.d2)
      [] m.kind = "ProgramChange" ->
           Set(Set(Set(EmptyTab, "event", "program_change"),
               "channel", midi_channel_to_num(m.ch)), "program", m.d1)
      [] m.kind = "PitchBend" ->
           Set(Set(Set(EmptyTab, "channel", midi_channel_to_num(m.ch)),
               "event", "pitch_bend"), "value", PitchValue(m.d1, m.d2))
      [] OTHER -> EmptyTab
Translate(m) ==
    CASE m.kind = "NoteOn" ->
           Set(Set(Set(Set(Set(EmptyTab, "event", "note_on"),
               "channel", midi_channel_to_num(m.ch)), "key", m.d1), "vel", m.d2),
               "is_note", TRUE)
      [] m.kind = "NoteOff" ->
           Set(Set(Set(Set(Set(EmptyTab, "event", "note_off"),
               "channel", midi_channel_to_num(m.ch)), "key", m.d1), "vel", m.d2),
               "is_note", TRUE)
      [] m.kind = "ControlChange" ->
           Set(Set(Set(Set(EmptyTab, "event", "control_change"),
               "channel", midi_channel_to_num(m.ch)), "control", m.d1),
               "value", m.d2)
      [] m.kind = "ProgramChange" ->
           Set(Set(Set(EmptyTab, "event", "program_change"),
               "channel", midi_channel_to_num(m.ch)), "program", m.d1)
      [] m.kind = "PitchBend" ->
           Set(Set(Set(EmptyTab, "channel", midi_channel_to_num(m.ch)),
               "event", "pitch_bend"), "value", PitchValue(m.d1, m.d2))
      [] OTHER -> EmptyTab

\* Sender::send on the unbounded channel
EnqueueFront(q, m) == <<m>> \o q
Enqueue(q, m) == Append(q, m)

\* the order of the register_api calls in main
ApiOrderSwapped == <<"gamepad", "midi", "misc">>
ApiOrder == <<"midi", "gamepad", "misc">>

----------------------------------------------------------------------------
(* Initial state: the process has just entered main. *)
Init ==
    /\ mainPc = "checkScript"
    /\ exited = FALSE
    /\ exitCode = 0
    /\ fatal = "none"
    /\ uinput = FALSE
    /\ luaMade = FALSE
    /\ registered = <<>>
    /\ scriptRan = FALSE
    /\ topDone = FALSE
    /\ onScriptInit = FALSE
    /\ initCalls = <<>>
    /\ onMidiRecv = 0
    /\ luaLock = "none"
    /\ recvLock = "none"
    /\ dPc = "none"
    /\ cur = NoMsg
    /\ handler = 0
    /\ tab = EmptyTab
    /\ queue = <<>>
    /\ started = {}
    /\ pushed = [p \in Producers |-> 0]
    /\ senders = {0}
    /\ fates = <<>>
    /\ delivered = <<>>
    /\ active = 0
    /\ tmsg = Midi("None", 0, 0, 0)
    /\ tout = [st |-> "pending", tab |-> EmptyTab]

----------------------------------------------------------------------------
(* Main thread: bootstrap *)

\* process termination: std::process::exit, main returning Err, or a panic
\* on the main thread; every thread of the process stops
Die(why, code) ==
    /\ exited' = TRUE
    /\ exitCode' = code
    /\ fatal' = why
    /\ mainPc' = "exited"

\* fatal_error!: error!(...) then std::process::exit(1)
FatalErrorNoExit(why, next) ==
    /\ fatal' = why
    /\ mainPc' = next
    /\ UNCHANGED <<exited, exitCode>>
FatalError(why, next) == Die(why, ExitFatal)

\* if !script_path.exists() { fatal_error!(..) }
CheckScriptPath ==
    /\ ~exited /\ mainPc = "checkScript"
    /\ \E exists \in BOOLEAN :
         IF exists
           THEN mainPc' = "checkUinput" /\ UNCHANGED <<exited, exitCode, fatal>>
           ELSE FatalError("script_missing", "checkUinput")
    /\ UNCHANGED <<uinput, luaMade, registered, scriptRan, topDone,
                   onScriptInit, initCalls, onMidiRecv>>
    /\ UNCHANGED <<dispVars, busVars, trVars>>

\* if !uinput_path.exists() { fatal_error!(..) }
CheckUinputPath ==
    /\ ~exited /\ mainPc = "checkUinput"
    /\ \E exists \in BOOLEAN :
         IF exists
           THEN mainPc' = "openUinput" /\ UNCHANGED <<exited, exitCode, fatal>>
           ELSE FatalError("uinput_missing", "openUinput")
    /\ UNCHANGED <<uinput, luaMade, registered, scriptRan, topDone,
                   onScriptInit, initCalls, onMidiRecv>>
    /\ UNCHANGED <<dispVars, busVars, trVars>>

\* OpenOptions::new()...open(uinput_path)?  and UInputHandle::new
OpenUinput ==
    /\ ~exited /\ mainPc = "openUinput"
    /\ \E ok \in BOOLEAN :
         IF ok
           THEN /\ uinput' = TRUE
                /\ mainPc' = "readScript"
                /\ UNCHANGED <<exited, exitCode, fatal>>
           ELSE Die("uinput_open", ExitFatal) /\ UNCHANGED uinput
    /\ UNCHANGED <<luaMade, registered, scriptRan, topDone, onScriptInit,
                   initCalls, onMidiRecv>>
    /\ UNCHANGED <<dispVars, busVars, trVars>>

\* std::fs::read_to_string(&script_path)?
ReadScript ==
    /\ ~exited /\ mainPc = "readScript"
    /\ \E ok \in BOOLEAN :
         IF ok
           THEN mainPc' = "newLua" /\ UNCHANGED <<exited, exitCode, fatal>>
           ELSE Die("script_read", ExitFatal)
    /\ UNCHANGED <<uinput, luaMade, registered, scriptRan, topDone,
                   onScriptInit, initCalls, onMidiRecv>>
    /\ UNCHANGED <<dispVars, busVars, trVars>>

\* mlua::Lua::new(); lua.load(..); a.set_name(..)?
NewLua ==
    /\ ~exited /\ mainPc = "newLua"
    /\ luaMade' = TRUE
    /\ \E ok \in BOOLEAN :
         IF ok
           THEN mainPc' = "register" /\ UNCHANGED <<exited, exitCode, fatal>>
           ELSE Die("set_name", ExitFatal)
    /\ UNCHANGED <<uinput, registered, scriptRan, topDone, onScriptInit,
                   initCalls, onMidiRecv>>
    /\ UNCHANGED <<dispVars, busVars, trVars>>

\* api::X::register_api(&lua, ..).unwrap(), one call per module
RegisterApi ==
    /\ ~exited /\ mainPc = "register"
    /\ LET i == Len(registered) + 1 IN
       \E ok \in BOOLEAN :
         IF ok
           THEN /\ registered' = Append(registered, ApiOrder[i])
                /\ mainPc' = IF i = Len(ApiOrder) THEN "exec" ELSE "register"
                /\ UNCHANGED <<exited, exitCode, fatal>>
           ELSE Die("register", ExitPanic) /\ UNCHANGED registered
    /\ UNCHANGED <<uinput, luaMade, scriptRan, topDone, onScriptInit,
                   initCalls, onMidiRecv>>
    /\ UNCHANGED <<dispVars, busVars, trVars>>

\* a.exec()?  -- the top-level chunk may define on_script_init and
\* on_midi_recv before it finishes or fails
ExecScript ==
    /\ ~exited /\ mainPc = "exec"
    /\ scriptRan' = TRUE
    /\ \E ok \in BOOLEAN, hasInit \in BOOLEAN, g \in 0..1 :
         /\ onScriptInit' = hasInit
         /\ onMidiRecv' = g
         /\ IF ok
              THEN /\ topDone' = TRUE
                   /\ mainPc' = "getInit"
                   /\ UNCHANGED <<exited, exitCode, fatal>>
              ELSE Die("exec", ExitFatal) /\ UNCHANGED topDone
    /\ UNCHANGED <<uinput, luaMade, registered, initCalls>>
    /\ UNCHANGED <<dispVars, busVars, trVars>>

\* globals.get::<&str, mlua::Function>("on_script_init")?
GetInitNoCheck ==
    /\ ~exited /\ mainPc = "getInit"
    /\ mainPc' = IF onScriptInit THEN "callInit" ELSE "spawn"
    /\ UNCHANGED <<exited, exitCode, fatal>>
    /\ UNCHANGED <<uinput, luaMade, registered, scriptRan, topDone,
                   onScriptInit, initCalls, onMidiRecv>>
    /\ UNCHANGED <<dispVars, busVars, trVars>>
GetInit ==
    /\ ~exited /\ mainPc = "getInit"
    /\ IF onScriptInit
         THEN mainPc' = "callInit" /\ UNCHANGED <<exited, exitCode, fatal>>
         ELSE Die("init_missing", ExitFatal)
    /\ UNCHANGED <<uinput, luaMade, registered, scriptRan, topDone,
                   onScriptInit, initCalls, onMidiRecv>>
    /\ UNCHANGED <<dispVars, busVars, trVars>>

\* on_script_init.call::<(), ()>(())?  -- the hook may set on_midi_recv
CallInit ==
    /\ ~exited /\ mainPc = "callInit"
    /\ initCalls' = Append(initCalls, <<>>)
    /\ \E ok \in BOOLEAN, g \in 0..1 :
         /\ onMidiRecv' = g
         /\ IF ok
              THEN mainPc' = "spawn" /\ UNCHANGED <<exited, exitCode, fatal>>
              ELSE Die("init_failed", ExitFatal)
    /\ UNCHANGED <<uinput, luaMade, registered, scriptRan, topDone,
                   onScriptInit>>
    /\ UNCHANGED <<dispVars, busVars, trVars>>

\* threads.push(std::thread::spawn(move || { .. }))
SpawnDispatch ==
    /\ ~exited /\ mainPc = "spawn"
    /\ mainPc' = "join"
    /\ dPc' = "start"
    /\ UNCHANGED <<exited, exitCode, fatal, uinput, luaMade, registered,
                   scriptRan, topDone, onScriptInit, initCalls, onMidiRecv>>
    /\ UNCHANGED <<luaLock, recvLock, cur, handler, tab, fates, delivered,
                   active>>
    /\ UNCHANGED <<busVars, trVars>>

\* for i in threads { i.join().unwrap(); }  Ok(())
\* join returns once the dispatch thread has ended: Err if it panicked (the
\* unwrap then panics main), Ok if its loop ended, and main returns Ok(())
JoinThreads ==
    /\ ~exited /\ mainPc = "join" /\ dPc \in {"panicked", "done"}
    /\ IF dPc = "panicked"
         THEN Die("join", ExitPanic)
         ELSE /\ exited' = TRUE
              /\ exitCode' = 0
              /\ mainPc' = "exited"
              /\ UNCHANGED fatal
    /\ UNCHANGED <<uinput, luaMade, registered, scriptRan, topDone,
                   onScriptInit, initCalls, onMidiRecv>>
    /\ UNCHANGED <<dispVars, busVars, trVars>>

----------------------------------------------------------------------------
(* Producer threads: started by the script through the midi api once      *)
(* bootstrap has succeeded; each sends on a clone of MESSAGE.0.            *)

StartProducer(p) ==
    /\ ~exited /\ mainPc \in {"spawn", "join"}
    /\ p \notin started
    /\ started' = started \cup {p}
    /\ senders' = senders \cup {p}
    /\ UNCHANGED <<queue, pushed>>
    /\ UNCHANGED <<mainVars, onMidiRecv, dispVars, trVars>>

TotalPushed == LET RECURSIVE Sum(_)
                   Sum(S) == IF S = {} THEN 0
                             ELSE LET x == CHOOSE y \in S : TRUE
                                  IN pushed[x] + Sum(S \ {x})
               IN Sum(Producers)

\* MESSAGE.0.lock().send(Message::Midi(m))
Push(p, m) ==
    /\ ~exited /\ p \in started /\ p \in senders
    /\ TotalPushed < MaxMsgs
    /\ pushed' = [pushed EXCEPT ![p] = @ + 1]
    /\ queue' = Enqueue(queue, [kind |-> m.kind, ch |-> m.ch, d1 |-> m.d1,
                                d2 |-> m.d2, src |-> p, n |-> pushed[p] + 1])
    /\ UNCHANGED <<started, senders>>
    /\ UNCHANGED <<mainVars, onMidiRecv, dispVars, trVars>>

\* a producer thread ends and drops its handle on the Sender
DropProducer(p) ==
    /\ ~exited /\ p \in started /\ p \in senders
    /\ senders' = senders \ {p}
    /\ UNCHANGED <<queue, started, pushed>>
    /\ UNCHANGED <<mainVars, onMidiRecv, dispVars, trVars>>

\* the channel is disconnected once no Sender is left
Disconnected == senders = {}

----------------------------------------------------------------------------
(* Dispatch thread *)

\* let lock = recv.lock();  -- kept for the whole loop
DispatchStart ==
    /\ ~exited /\ dPc = "start" /\ recvLock = "none"
    /\ recvLock' = "dispatch"
    /\ dPc' = "waiting"
    /\ UNCHANGED <<luaLock, cur, handler, tab, fates, delivered, active>>
    /\ UNCHANGED <<mainVars, onMidiRecv, busVars, trVars>>

\* while let Ok(x) = lock.recv()
\* recv blocks while the channel is empty and a Sender exists; it returns
\* Err once the channel is empty and disconnected, which ends the loop and
\* the thread (the guard `lock` is dropped)
DispatchRecvLast ==
    /\ ~exited /\ dPc = "waiting" /\ queue # <<>>
    /\ cur' = queue[Len(queue)]
    /\ queue' = SubSeq(queue, 1, Len(queue) - 1)
    /\ dPc' = "lock"
    /\ UNCHANGED <<luaLock, recvLock, handler, tab, fates, delivered, active>>
    /\ UNCHANGED <<mainVars, onMidiRecv, started, pushed, senders, trVars>>
DispatchRecvPeek ==
    /\ ~exited /\ dPc = "waiting" /\ queue # <<>>
    /\ cur' = Head(queue)
    /\ dPc' = "lock"
    /\ UNCHANGED <<luaLock, recvLock, handler, tab, fates, delivered, active>>
    /\ UNCHANGED <<mainVars, onMidiRecv, busVars, trVars>>
DispatchRecvUnlock ==
    /\ ~exited /\ dPc = "waiting" /\ queue # <<>>
    /\ cur' = Head(queue)
    /\ queue' = Tail(queue)
    /\ dPc' = "lock"
    /\ recvLock' = "none"
    /\ UNCHANGED <<luaLock, handler, tab, fates, delivered, active>>
    /\ UNCHANGED <<mainVars, onMidiRecv, started, pushed, senders, trVars>>
DispatchRecv ==
    /\ ~exited /\ dPc = "waiting"
    /\ queue # <<>> \/ Disconnected
    /\ IF queue # <<>>
         THEN /\ cur' = Head(queue)
              /\ queue' = Tail(queue)
              /\ dPc' = "lock"
              /\ UNCHANGED recvLock
         ELSE /\ dPc' = "done"
              /\ recvLock' = "none"
              /\ UNCHANGED <<cur, queue>>
    /\ UNCHANGED <<luaLock, handler, tab, fates, delivered, active>>
    /\ UNCHANGED <<mainVars, onMidiRecv, started, pushed, senders, trVars>>

\* let lua = lua.lock();
DispatchLock ==
    /\ ~exited /\ dPc = "lock" /\ luaLock = "none"
    /\ luaLock' = "dispatch"
    /\ dPc' = "lookup"
    /\ UNCHANGED <<recvLock, cur, handler, tab, fates, delivered, active>>
    /\ UNCHANGED <<mainVars, onMidiRecv, busVars, trVars>>

\* `continue`: the guard `lua` and the message are dropped, back to recv()
ContinueHoldingLock(fate) ==
    /\ dPc' = "waiting"
    /\ fates' = Append(fates, [msg |-> cur, fate |-> fate])
    /\ cur' = NoMsg
    /\ handler' = 0
    /\ tab' = EmptyTab
    /\ UNCHANGED <<luaLock, recvLock, delivered, active>>
Continue(fate) ==
    /\ luaLock' = "none"
    /\ dPc' = "waiting"
    /\ fates' = Append(fates, [msg |-> cur, fate |-> fate])
    /\ cur' = NoMsg
    /\ handler' = 0
    /\ tab' = EmptyTab
    /\ UNCHANGED <<recvLock, delivered, active>>

\* a panic of the dispatch thread: unwinding drops both guards
Panic ==
    /\ luaLock' = "none"
    /\ recvLock' = "none"
    /\ dPc' = "panicked"

\* let on_midi_recv = lua.globals().get::<&str, mlua::Function>("on_midi_recv");
\* if on_midi_recv.is_err() { continue; }  let on_midi_recv = on_midi_recv.unwrap();
DispatchLookupCached ==
    /\ ~exited /\ dPc = "lookup"
    /\ LET f == IF delivered = <<>> THEN onMidiRecv ELSE delivered[1].h IN
       IF f = 0
         THEN Continue("nohandler")
         ELSE /\ handler' = f
              /\ dPc' = "check"
              /\ UNCHANGED <<luaLock, recvLock, cur, tab, fates, delivered,
                             active>>
    /\ UNCHANGED <<mainVars, onMidiRecv, busVars, trVars>>
DispatchLookupUnwrap ==
    /\ ~exited /\ dPc = "lookup"
    /\ IF onMidiRecv = 0
         THEN /\ Panic
              /\ UNCHANGED <<cur, handler, tab, fates, delivered, active>>
         ELSE /\ handler' = onMidiRecv
              /\ dPc' = "check"
              /\ UNCHANGED <<luaLock, recvLock, cur, tab, fates, delivered,
                             active>>
    /\ UNCHANGED <<mainVars, onMidiRecv, busVars, trVars>>
DispatchLookupNoDrop ==
    /\ ~exited /\ dPc = "lookup"
    /\ handler' = onMidiRecv
    /\ dPc' = "check"
    /\ UNCHANGED <<luaLock, recvLock, cur, tab, fates, delivered, active>>
    /\ UNCHANGED <<mainVars, onMidiRecv, busVars, trVars>>
DispatchLookup ==
    /\ ~exited /\ dPc = "lookup"
    /\ IF onMidiRecv = 0
         THEN Continue("nohandler")
         ELSE /\ handler' = onMidiRecv
              /\ dPc' = "check"
              /\ UNCHANGED <<luaLock, recvLock, cur, tab, fates, delivered,
                             active>>
    /\ UNCHANGED <<mainVars, onMidiRecv, busVars, trVars>>

\* if let MidiMessage::Invalid = midi { continue; }
\* let tab = lua.create_table().unwrap();
DispatchCheckInvalid ==
    /\ ~exited /\ dPc = "check"
    /\ IF cur.kind = "Invalid"
         THEN Continue("invalid")
         ELSE /\ dPc' = "translate"
              /\ tab' = EmptyTab
              /\ UNCHANGED <<luaLock, recvLock, cur, handler, fates, delivered,
                             active>>
    /\ UNCHANGED <<mainVars, onMidiRecv, busVars, trVars>>

\* match &midi { .. }
DispatchTranslate ==
    /\ ~exited /\ dPc = "translate"
    /\ IF Covered(cur.kind)
         THEN /\ tab' = Translate(cur)
              /\ dPc' = "call"
              /\ UNCHANGED <<luaLock, recvLock, cur, handler, fates, delivered,
                             active>>
         ELSE Continue("unknown")
    /\ UNCHANGED <<mainVars, onMidiRecv, busVars, trVars>>

\* on_midi_recv.call::<_, ()>((tab,)) : the handler is entered
DispatchCallDetached ==
    /\ ~exited /\ dPc = "call"
    /\ active' = active + 1
    /\ delivered' = Append(delivered, [h |-> handler, args |-> <<tab>>,
                                       msg |-> cur])
    /\ dPc' = "waiting"
    /\ luaLock' = "none"
    /\ fates' = Append(fates, [msg |-> cur, fate |-> "delivered"])
    /\ cur' = NoMsg
    /\ handler' = 0
    /\ tab' = EmptyTab
    /\ UNCHANGED recvLock
    /\ UNCHANGED <<mainVars, onMidiRecv, busVars, trVars>>
DispatchCallUnlocked ==
    /\ ~exited /\ dPc = "call"
    /\ active' = active + 1
    /\ delivered' = Append(delivered, [h |-> handler, args |-> <<tab>>,
                                       msg |-> cur])
    /\ dPc' = "inHandler"
    /\ luaLock' = "none"
    /\ UNCHANGED <<recvLock, cur, handler, tab, fates>>
    /\ UNCHANGED <<mainVars, onMidiRecv, busVars, trVars>>
DispatchCall ==
    /\ ~exited /\ dPc = "call"
    /\ active' = active + 1
    /\ delivered' = Append(delivered, [h |-> handler, args |-> <<tab>>,
                                       msg |-> cur])
    /\ dPc' = "inHandler"
    /\ UNCHANGED <<luaLock, recvLock, cur, handler, tab, fates>>
    /\ UNCHANGED <<mainVars, onMidiRecv, busVars, trVars>>

\* the handler returns Ok; it may have defined, replaced or removed the
\* global on_midi_recv.  End of the loop body: `lua` is dropped.
HandlerReturn ==
    /\ ~exited /\ dPc = "inHandler"
    /\ \E g \in {0} \cup Handlers : onMidiRecv' = g
    /\ active' = active - 1
    /\ luaLock' = "none"
    /\ dPc' = "waiting"
    /\ fates' = Append(fates, [msg |-> cur, fate |-> "delivered"])
    /\ cur' = NoMsg
    /\ handler' = 0
    /\ tab' = EmptyTab
    /\ UNCHANGED <<recvLock, delivered>>
    /\ UNCHANGED <<mainVars, busVars, trVars>>

\* the handler raises: .unwrap() panics the dispatch thread
HandlerErrorLogged ==
    /\ ~exited /\ dPc = "inHandler"
    /\ \E g \in {0} \cup Handlers : onMidiRecv' = g
    /\ active' = active - 1
    /\ luaLock' = "none"
    /\ dPc' = "waiting"
    /\ fates' = Append(fates, [msg |-> cur, fate |-> "error"])
    /\ cur' = NoMsg
    /\ handler' = 0
    /\ tab' = EmptyTab
    /\ UNCHANGED <<recvLock, delivered>>
    /\ UNCHANGED <<mainVars, busVars, trVars>>
HandlerError ==
    /\ ~exited /\ dPc = "inHandler"
    /\ \E g \in {0} \cup Handlers : onMidiRecv' = g
    /\ active' = active - 1
    /\ Panic
    /\ fates' = Append(fates, [msg |-> cur, fate |-> "error"])
    /\ UNCHANGED <<cur, handler, tab, delivered>>
    /\ UNCHANGED <<mainVars, busVars, trVars>>

----------------------------------------------------------------------------
Next ==
    \/ CheckScriptPath
    \/ CheckUinputPath
    \/ OpenUinput
    \/ ReadScript
    \/ NewLua
    \/ RegisterApi
    \/ ExecScript
    \/ GetInit
    \/ CallInit
    \/ SpawnDispatch
    \/ JoinThreads
    \/ \E p \in Producers : StartProducer(p)
    \/ \E p \in Producers, m \in BusPayloads : Push(p, m)
    \/ DispatchStart
    \/ DispatchRecv
    \/ DispatchLock
    \/ DispatchLookup
    \/ DispatchCheckInvalid
    \/ DispatchTranslate
    \/ DispatchCall
    \/ HandlerReturn
    \/ HandlerError

Spec == Init /\ [][Next]_vars

\* the threads are scheduled fairly: the dispatch thread takes its next
\* step whenever it can, every handler invocation ends, and main spawns
\* the dispatch thread
DispatchStep ==
    \/ DispatchStart
    \/ DispatchRecv
    \/ DispatchLock
    \/ DispatchLookup
    \/ DispatchCheckInvalid
    \/ DispatchTranslate
    \/ DispatchCall
    \/ HandlerReturn
    \/ HandlerError

MainStep ==
    \/ CheckScriptPath
    \/ CheckUinputPath
    \/ OpenUinput
    \/ ReadScript
    \/ NewLua
    \/ RegisterApi
    \/ ExecScript
    \/ GetInit
    \/ CallInit
    \/ SpawnDispatch
    \/ JoinThreads

\* the two producer threads of the fair runs
LiveProducers == {1, 2}

NextLive ==
    \/ MainStep
    \/ \E p \in LiveProducers : StartProducer(p)
    \/ \E p \in LiveProducers, m \in BusPayloads : Push(p, m)
    \/ DispatchStep

SpecLive ==
    Init /\ [][NextLive]_vars /\ WF_vars(DispatchStep) /\ WF_vars(SpawnDispatch)

\* the same program with producer threads that may end
NextShutdown ==
    \/ Next
    \/ \E p \in Producers : DropProducer(p)

SpecShutdown == Init /\ [][NextShutdown]_vars

----------------------------------------------------------------------------
(* The end-to-end scenario: one producer sends a note-on (Ch1, key 60,     *)
(* velocity 100) and then a control-change (Ch2, control 7, value 127).    *)

Scenario == <<Midi("NoteOn", 1, 60, 100), Midi("ControlChange", 2, 7, 127)>>

PushScenario ==
    /\ pushed[1] < Len(Scenario)
    /\ Push(1, Scenario[pushed[1] + 1])

NextScenario ==
    \/ CheckScriptPath
    \/ CheckUinputPath
    \/ OpenUinput
    \/ ReadScript
    \/ NewLua
    \/ RegisterApi
    \/ ExecScript
    \/ GetInit
    \/ CallInit
    \/ SpawnDispatch
    \/ JoinThreads
    \/ StartProducer(1)
    \/ PushScenario
    \/ DispatchStart
    \/ DispatchRecv
    \/ DispatchLock
    \/ DispatchLookup
    \/ DispatchCheckInvalid
    \/ DispatchTranslate
    \/ DispatchCall
    \/ HandlerReturn
    \/ HandlerError

SpecScenario == Init /\ [][NextScenario]_vars

----------------------------------------------------------------------------
(* The translation alone: the body of the loop from the Invalid check to  *)
(* the end of `match &midi`, applied to one message.                       *)

InitTranslate ==
    /\ mainPc = "checkScript"
    /\ exited = FALSE
    /\ exitCode = 0
    /\ fatal = "none"
    /\ uinput = FALSE
    /\ luaMade = FALSE
    /\ registered = <<>>
    /\ scriptRan = FALSE
    /\ topDone = FALSE
    /\ onScriptInit = FALSE
    /\ initCalls = <<>>
    /\ onMidiRecv = 0
    /\ luaLock = "none"
    /\ recvLock = "none"
    /\ dPc = "none"
    /\ cur = NoMsg
    /\ handler = 0
    /\ tab = EmptyTab
    /\ queue = <<>>
    /\ started = {}
    /\ pushed = [p \in Producers |-> 0]
    /\ senders = {0}
    /\ fates = <<>>
    /\ delivered = <<>>
    /\ active = 0
    /\ TranslateInput(tmsg)
    /\ tout = [st |-> "pending", tab |-> EmptyTab]

TranslateMessage ==
    /\ tout.st = "pending"
    /\ tout' = IF tmsg.kind = "Invalid"
                 THEN [st |-> "invalid", tab |-> EmptyTab]
               ELSE IF Covered(tmsg.kind)
                 THEN [st |-> "table", tab |-> Translate(tmsg)]
               ELSE [st |-> "unknown", tab |-> EmptyTab]
    /\ UNCHANGED tmsg
    /\ UNCHANGED <<mainVars, onMidiRecv, dispVars, busVars>>

NextTranslate == TranslateMessage

SpecTranslate == InitTranslate /\ [][NextTranslate]_vars

----------------------------------------------------------------------------
(* Properties *)

FateIs(i, f) == i \in 1..Len(fates) /\ fates[i].fate = f
Dropped == {"nohandler", "invalid", "unknown"}
FullApi == <<"midi", "gamepad", "misc">>
IsPrefix(a, b) == Len(a) <= Len(b) /\ \A i \in 1..Len(a) : a[i] = b[i]
BootstrapFatal == {"script_missing", "uinput_missing", "uinput_open",
                   "script_read", "set_name", "register", "exec",
                   "init_missing", "init_failed"}

\* C1: at most one on_midi_recv invocation is in progress in every reachable
\* state, however many producers push: a call is entered only after every
\* earlier call has returned.
C1_NoOverlap ==
    /\ active \in {0, 1}
    /\ active = 1 <=> dPc = "inHandler"
    /\ Len(delivered) =
         Cardinality({i \in 1..Len(fates) : fates[i].fate \in {"delivered", "error"}})
         + active

\* C1 witness: the handler is running for a second call, the two calls are
\* for messages of different producers, and another message is queued.
C1_Witness ==
    /\ active = 1
    /\ Len(delivered) = 2
    /\ delivered[1].msg.src # delivered[2].msg.src
    /\ queue # <<>>

\* C2: the handler sees the deliverable messages of one producer in the
\* order that producer pushed them, each as its translated record; only
\* messages of different producers may interleave.
C2_PerProducerOrder ==
    /\ \A i, j \in 1..Len(delivered) :
         (i < j /\ delivered[i].msg.src = delivered[j].msg.src)
           => delivered[i].msg.n < delivered[j].msg.n
    /\ \A i, j \in 1..Len(fates) :
         (i < j /\ fates[i].msg.src = fates[j].msg.src)
           => fates[i].msg.n < fates[j].msg.n
    /\ \A i \in 1..Len(delivered) :
         delivered[i].args = <<Translate(delivered[i].msg)>>

\* C2 witness: producer 1 pushed A then B, producer 2 pushed in between,
\* and the handler was called for A and then for B.
C2_Witness ==
    /\ Len(delivered) = 3
    /\ delivered[1].msg.src = delivered[3].msg.src
    /\ delivered[2].msg.src # delivered[1].msg.src
    /\ delivered[1].msg.n = 1 /\ delivered[3].msg.n = 2

\* C3: an Invalid message or a variant outside the five translated ones
\* never reaches the handler and never ends the dispatch loop; when the
\* handler was defined at every lookup and never failed, the number of
\* handler calls is the number of valid messages dequeued.
C3_InvalidNeverDelivered ==
    /\ \A i \in 1..Len(delivered) : delivered[i].msg.kind \in ValidKinds
    /\ \A i \in 1..Len(fates) :
         fates[i].msg.kind \notin ValidKinds => fates[i].fate \in Dropped
    /\ (cur # NoMsg /\ cur.kind \notin ValidKinds)
         => dPc \in {"lock", "lookup", "check", "translate"}
    /\ dPc = "panicked" => (cur.kind \in ValidKinds /\ FateIs(Len(fates), "error"))
    /\ (dPc = "waiting" /\ \A i \in 1..Len(fates) :
                              fates[i].fate \notin {"nohandler", "error"})
         => /\ Len(delivered) =
                 Cardinality({i \in 1..Len(fates) :
                                 fates[i].msg.kind \in ValidKinds})
            /\ active = 0

\* C3 witness: a valid, an Invalid and an untranslatable message have been
\* processed with the handler defined; one call was made and the loop waits.
C3_Witness ==
    /\ dPc = "waiting" /\ ~exited
    /\ Len(fates) = 3
    /\ \E i, j, k \in 1..3 :
         /\ fates[i].fate = "invalid" /\ fates[j].fate = "unknown"
         /\ fates[k].fate = "delivered"
    /\ Len(delivered) = 1

\* C4: when the lookup of on_midi_recv finds no function, the message is
\* dropped: no handler call, no error, the thread goes back to recv, and
\* its lock on the interpreter is released.
C4_NoHandlerDrop ==
    [][(dPc = "lookup" /\ onMidiRecv = 0 /\ dPc' # dPc)
         => /\ dPc' = "waiting"
            /\ delivered' = delivered
            /\ active' = active
            /\ exited' = FALSE
            /\ luaLock' = "none" /\ recvLock' = recvLock
            /\ queue' = queue
            /\ fates' = Append(fates, [msg |-> cur, fate |-> "nohandler"])]_vars

\* C4 witness: with no handler defined a valid and an Invalid message were
\* both dropped, no call was made, and the loop has dequeued a third one.
C4_Witness ==
    /\ Len(fates) = 2
    /\ fates[1].fate = "nohandler" /\ fates[2].fate = "nohandler"
    /\ fates[1].msg.kind = "NoteOn" /\ fates[2].msg.kind = "Invalid"
    /\ delivered = <<>>
    /\ dPc = "lock" /\ ~exited

\* C5: the table built for a valid variant has exactly the documented keys
\* and the message's own field values (the channel as its number 0..15);
\* the variants outside the five get no table.
C5_RecordSchema ==
    LET t == tout.tab
        c == tmsg.ch - 1
    IN tout.st # "pending" =>
       /\ tmsg.kind \in ValidKinds <=> tout.st = "table"
       /\ tout.st = "table" => (c \in 0..15 /\ t.channel = c)
       /\ tmsg.kind = "NoteOn" =>
            t = [event |-> "note_on", channel |-> c, key |-> tmsg.d1,
                 vel |-> tmsg.d2, is_note |-> TRUE]
       /\ tmsg.kind = "NoteOff" =>
            t = [event |-> "note_off", channel |-> c, key |-> tmsg.d1,
                 vel |-> tmsg.d2, is_note |-> TRUE]
       /\ tmsg.kind = "ControlChange" =>
            t = [event |-> "control_change", channel |-> c,
                 control |-> tmsg.d1, value |-> tmsg.d2]
       /\ tmsg.kind = "ProgramChange" =>
            t = [event |-> "program_change", channel |-> c,
                 program |-> tmsg.d1]
       /\ tmsg.kind = "PitchBend" =>
            /\ DOMAIN t = {"event", "channel", "value"}
            /\ t.event = "pitch_bend"
            /\ t.value \in Nat

\* C5 witness: a note-off on channel 16 has been translated.
C5_Witness ==
    /\ tout.st = "table"
    /\ tmsg = Midi("NoteOff", 16, 127, 0)
    /\ DOMAIN tout.tab = {"event", "channel", "key", "vel", "is_note"}

\* C6: the pitch-bend value is msb * 256 + lsb, within 16 bits, for every
\* pair of bytes; lsb 0x34 and msb 0x12 give 4660.
C6_PitchBendValue ==
    (tout.st = "table" /\ tmsg.kind = "PitchBend") =>
       /\ tout.tab.value = tmsg.d2 * 256 + tmsg.d1
       /\ tout.tab.value \in 0..65535
       /\ (tmsg.d1 = 52 /\ tmsg.d2 = 18) => tout.tab.value = 4660

\* C6 witness: the pitch-bend with lsb 0x34 and msb 0x12 has been
\* translated to 4660.
C6_Witness ==
    /\ tout.st = "table" /\ tmsg.kind = "PitchBend"
    /\ tmsg.d1 = 52 /\ tmsg.d2 = 18
    /\ tout.tab.value = 4660

C8_ExitCodeOne ==
    (exited /\ fatal \in BootstrapFatal) => exitCode = 1

\* C9: the api modules are registered once each, in the order midi,
\* gamepad, misc, all before the script's top level starts; the uinput
\* handle exists before the interpreter; a failed registration ends the
\* process before any script code has run.
C9_RegistrationOrder ==
    /\ IsPrefix(registered, FullApi)
    /\ scriptRan => registered = FullApi
    /\ mainPc \in {"exec", "getInit", "callInit", "spawn", "join"}
         => registered = FullApi
    /\ luaMade => uinput
    /\ registered # <<>> => luaMade
    /\ fatal = "register" => (exited /\ ~scriptRan /\ initCalls = <<>>)

\* C9 witness: the top level has run with all three modules registered.
C9_Witness ==
    /\ scriptRan /\ topDone
    /\ registered = <<"midi", "gamepad", "misc">>
    /\ uinput /\ luaMade

\* C10: on_script_init is called at most once, with no arguments, after
\* the top level has finished, and exactly once before the dispatch thread
\* exists; a missing or failing hook means no dispatch thread.
C10_InitOnceBeforeDispatch ==
    /\ Len(initCalls) <= 1
    /\ \A i \in 1..Len(initCalls) : initCalls[i] = <<>>
    /\ initCalls # <<>> => (topDone /\ onScriptInit)
    /\ (dPc # "none" \/ mainPc \in {"spawn", "join"})
         => (Len(initCalls) = 1 /\ fatal \notin {"init_missing", "init_failed"})
    /\ delivered # <<>> => Len(initCalls) = 1
    /\ fatal \in {"init_missing", "init_failed"}
         => (dPc = "none" /\ exited /\ delivered = <<>>)

\* C10 witness: the handler is running and on_script_init has been called
\* once.
C10_Witness ==
    /\ dPc = "inHandler"
    /\ initCalls = <<<<>>>>

\* C11: once every producer has dropped its handle the bus closes, the
\* dispatch loop ends and main's join returns, so the process exits
\* cleanly: with all producers gone and no handler error the process has
\* either exited with code 0 or can still take a step towards it.
C11_ShutdownWhenProducersDropped ==
    (started = Producers /\ senders \cap Producers = {} /\ dPc # "panicked")
      => ((exited /\ exitCode = 0) \/ ENABLED NextShutdown)

\* a producer that is running and still has a message to send can send it
\* now: the send end is not held by anyone else
CanPush ==
    \A p \in Producers :
       (~exited /\ p \in started /\ p \in senders /\ TotalPushed < MaxMsgs)
         => \A m \in BusPayloads : ENABLED Push(p, m)

InLoop == {"waiting", "lock", "lookup", "check", "translate", "call",
           "inHandler"}

\* C12 as stated: the consumer-end lock is held for one pop only, so it is
\* free while the loop translates or invokes a handler, and a push never
\* waits for a handler.
C12_ConsumerLockPerPop ==
    /\ dPc \in {"translate", "call", "inHandler"} => recvLock = "none"
    /\ dPc = "inHandler" => CanPush

\* C12 amended: the dispatch thread takes the consumer-end lock once,
\* before its loop, and holds it until the thread ends, also while it
\* translates or invokes a handler; a producer's push never waits for a
\* handler invocation.
C12_ConsumerLockWholeLoop ==
    /\ recvLock = "dispatch" <=> dPc \in InLoop
    /\ recvLock \in {"none", "dispatch"}
    /\ dPc = "inHandler" => CanPush

\* C12 witness: the handler is running, the consumer-end lock is held, and
\* two messages pushed meanwhile are waiting in the channel.
C12_Witness ==
    /\ dPc = "inHandler" /\ recvLock = "dispatch"
    /\ Len(queue) = 2 /\ Len(delivered) = 1 /\ fates = <<>>

\* the list a script builds when its on_midi_recv appends each record
Received == [i \in 1..Len(delivered) |-> delivered[i].args[1]]

ExpectedList ==
    <<[event |-> "note_on", channel |-> 0, key |-> 60, vel |-> 100,
       is_note |-> TRUE],
      [event |-> "control_change", channel |-> 1, control |-> 7,
       value |-> 127]>>

\* C13: in the end-to-end scenario the records arrive in the order pushed:
\* the list is always a prefix of [note_on record, control_change record],
\* every call has one argument, and once both messages were handled by a
\* defined, non-failing handler the list is exactly that, after two calls.
C13_EndToEnd ==
    /\ Len(delivered) <= 2
    /\ \A i \in 1..Len(delivered) :
         Len(delivered[i].args) = 1 /\ Received[i] = ExpectedList[i]
    /\ (Len(fates) = 2 /\ \A i \in 1..2 : fates[i].fate = "delivered")
         => (Received = ExpectedList /\ Len(delivered) = 2 /\ queue = <<>>)

\* C13 witness: both messages have been delivered and the loop waits.
C13_Witness ==
    /\ dPc = "waiting" /\ ~exited
    /\ Len(fates) = 2 /\ fates[1].fate = "delivered" /\ fates[2].fate = "delivered"
    /\ Received = ExpectedList

\* C14: whatever became of a message (no handler, Invalid, untranslatable,
\* delivered, handler error), the interpreter lock is free whenever the
\* dispatch thread is blocked in recv, has died or has ended.
C14_LuaLockReleased ==
    /\ dPc \in {"none", "start", "waiting", "lock", "panicked", "done"}
         => luaLock = "none"
    /\ \A i \in 1..Len(fates) :
         fates[i].fate \in {"nohandler", "invalid", "unknown", "delivered",
                            "error"}

\* C14 witness: three messages took three different exits (Invalid,
\* untranslatable, handler error), the thread has died, the lock is free.
C14_Witness ==
    /\ dPc = "panicked" /\ luaLock = "none"
    /\ Len(fates) = 3
    /\ fates[1].fate = "invalid" /\ fates[2].fate = "unknown"
    /\ fates[3].fate = "error"

\* C15 as stated: the interpreter lock is held only while a handler
\* invocation is in progress, and during all of it.
C15_LockOnlyDuringCall ==
    luaLock = "dispatch" <=> active = 1

\* C15 amended: the interpreter lock is held during the whole of every
\* handler invocation, and it is taken once per dequeued message, before
\* the handler lookup: it is held from the lookup through the Invalid
\* check, the translation and the call, also for a message that ends up
\* dropped, and at no other time.
C15_LockPerMessage ==
    /\ active = 1 => luaLock = "dispatch"
    /\ luaLock = "dispatch"
         <=> dPc \in {"lookup", "check", "translate", "call", "inHandler"}
    /\ luaLock \in {"none", "dispatch"}

\* C15 witness: the lock is held for an Invalid message, which will be
\* dropped, while no handler invocation is in progress.
C15_Witness ==
    /\ luaLock = "dispatch" /\ active = 0
    /\ dPc = "check" /\ cur.kind = "Invalid"

MsgId(x) == <<x.src, x.n>>
Count(seq, id) == Cardinality({i \in 1..Len(seq) : MsgId(seq[i]) = id})
FateMsgs == [i \in 1..Len(fates) |-> fates[i].msg]
CallMsgs == [i \in 1..Len(delivered) |-> delivered[i].msg]

\* C16: every pushed message is in exactly one place (the channel, the
\* dispatch thread's hands, or the history of consumed messages), so it is
\* dequeued once and never re-enqueued; a valid message whose lookup found
\* a handler gets exactly one call, with its translated record as the only
\* argument, and no other message gets a call.
C16_ConsumedExactlyOnce ==
    /\ \A p \in Producers : \A k \in 1..pushed[p] :
         Count(queue, <<p, k>>) + Count(FateMsgs, <<p, k>>)
           + (IF cur # NoMsg /\ dPc # "panicked" /\ MsgId(cur) = <<p, k>>
                THEN 1 ELSE 0) = 1
    /\ Len(queue) + Len(fates) + (IF dPc \in {"lock", "lookup", "check",
                                   "translate", "call", "inHandler"}
                                    THEN 1 ELSE 0) = TotalPushed
    /\ \A i \in 1..Len(fates) :
         LET f == fates[i] IN
           /\ Count(CallMsgs, MsgId(f.msg))
                = (IF f.fate \in {"delivered", "error"} THEN 1 ELSE 0)
           /\ (f.msg.kind \in ValidKinds /\ f.fate # "nohandler")
                => f.fate \in {"delivered", "error"}
    /\ \A i \in 1..Len(delivered) :
         /\ Count(CallMsgs, MsgId(delivered[i].msg)) = 1
         /\ delivered[i].args = <<Translate(delivered[i].msg)>>
         /\ delivered[i].msg.kind \in ValidKinds
         /\ delivered[i].h # 0

\* C16 witness: three messages were pushed and consumed; two of them were
\* valid and got one call each.
C16_Witness ==
    /\ Len(fates) = 3 /\ queue = <<>> /\ dPc = "waiting"
    /\ Len(delivered) = 2
    /\ \E i \in 1..3 : fates[i].fate = "invalid"

\* C17: a handler error kills the dispatch thread at that call; from then
\* on nothing is dequeued, translated or delivered, whatever is queued or
\* pushed later stays in the channel, and main's join fails: the process
\* can only end with the panic exit code, never cleanly.
C17_HandlerErrorFatal ==
    /\ [](dPc = "panicked" =>
            /\ FateIs(Len(fates), "error")
            /\ luaLock = "none" /\ recvLock = "none" /\ active = 0
            /\ (exited => exitCode = 101 /\ fatal = "join")
            /\ (~exited => (mainPc = "join" /\ ENABLED JoinThreads)))
    /\ [][/\ (Len(fates') = Len(fates) + 1
                /\ fates'[Len(fates')].fate = "error") => dPc' = "panicked"
          /\ dPc = "panicked" =>
               /\ dPc' = "panicked"
               /\ fates' = fates /\ delivered' = delivered
               /\ cur' = cur /\ tab' = tab
               /\ Len(queue') >= Len(queue)
               /\ SubSeq(queue', 1, Len(queue)) = queue]_vars

\* C17 witness: the handler failed on the first message, two messages were
\* pushed and never consumed, and the process ended with the panic code.
C17_Witness ==
    /\ exited /\ fatal = "join" /\ exitCode = 101
    /\ dPc = "panicked"
    /\ Len(fates) = 1 /\ Len(queue) = 2

\* C18: on_midi_recv is looked up in the globals for every dequeued message:
\* the lookup takes the global's current value, a call goes to the function
\* that lookup found, a message whose lookup found none is dropped, and
\* a dropped message never gets a call later.
C18_HandlerResolvedPerMessage ==
    /\ [](/\ dPc \in {"check", "translate", "call"}
               => (handler = onMidiRecv /\ handler # 0)
          /\ \A i \in 1..Len(fates) :
               fates[i].fate = "nohandler"
                 => Count(CallMsgs, MsgId(fates[i].msg)) = 0)
    /\ [][/\ (dPc = "lookup" /\ dPc' # dPc) =>
               IF onMidiRecv = 0
                 THEN /\ dPc' = "waiting" /\ delivered' = delivered
                      /\ fates' = Append(fates, [msg |-> cur,
                                                 fate |-> "nohandler"])
                 ELSE dPc' = "check" /\ handler' = onMidiRecv /\ fates' = fates
          /\ Len(delivered') = Len(delivered) + 1 =>
               /\ delivered'[Len(delivered')].h = onMidiRecv
               /\ delivered'[Len(delivered')].msg = cur
               /\ onMidiRecv # 0]_vars

\* C18 witness: the first handler replaced itself, the second message went
\* to the replacement, which removed the global, and the third message was
\* dropped.
C18_Witness ==
    /\ Len(delivered) = 2
    /\ delivered[1].h = 1 /\ delivered[2].h = 2
    /\ Len(fates) = 3 /\ fates[3].fate = "nohandler"
    /\ fates[3].msg.kind = "NoteOn"

InQueue(p, k) == Count(queue, <<p, k>>) = 1
Called(p, k) == Count(CallMsgs, <<p, k>>) = 1
NoHandlerFor(p, k) ==
    \E i \in 1..Len(fates) :
       MsgId(fates[i].msg) = <<p, k>> /\ fates[i].fate = "nohandler"
IsValid(p, k) ==
    \E i \in 1..Len(queue) :
       MsgId(queue[i]) = <<p, k>> /\ queue[i].kind \in ValidKinds

\* C19: under fair scheduling every valid message in the channel is
\* eventually handed to the handler, unless its lookup finds no handler
\* defined or a handler invocation fails and kills the dispatch thread.
C19_EventuallyDelivered ==
    \A p \in Producers : \A k \in 1..MaxMsgs :
       (InQueue(p, k) /\ IsValid(p, k))
         ~> (Called(p, k) \/ NoHandlerFor(p, k) \/ dPc = "panicked")

\* C19 witness: three valid messages were queued and all three have been
\* delivered.
C19_Witness ==
    /\ Len(delivered) = 3 /\ Len(fates) = 3
    /\ \A i \in 1..3 : fates[i].fate = "delivered"
    /\ pushed[1] >= 1 /\ pushed[2] >= 1


\* the steps of one message at which a table exists (created at line 125)
HasRecord == dPc \in {"translate", "call", "inHandler"}
\* the outcome of the other order: translate first, then look the handler up
TranslateFirstCalls(msg, g) ==
    /\ msg.kind # "Invalid"
    /\ Covered(msg.kind)
    /\ g # 0
EntersHandler == dPc = "call" /\ dPc' = "inHandler"
DropsMessage ==
    /\ Len(fates') = Len(fates) + 1
    /\ fates'[Len(fates')].fate \in Dropped

\* C20: the lookup comes first: a table exists only while a found handler is
\* held, a message whose lookup found nothing is dropped at the lookup
\* itself, an Invalid or untranslatable message is dropped only after a
\* lookup that found a handler, and the global cannot change between the
\* lookup and the call, so a message is handed to the handler exactly when
\* translating first and looking up second would have handed it over.
C20_LookupFirstEquivalent ==
    /\ [](HasRecord => (handler # 0 /\ cur # NoMsg))
    /\ [](dPc \in {"check", "translate", "call"}
            => (handler = onMidiRecv /\ handler # 0))
    /\ [][/\ (dPc \in {"lookup", "check", "translate", "call"})
                => onMidiRecv' = onMidiRecv
          /\ (dPc = "lookup" /\ onMidiRecv = 0 /\ dPc' # dPc)
                => (DropsMessage /\ fates'[Len(fates')].fate = "nohandler"
                     /\ tab' = EmptyTab /\ ~HasRecord')
          /\ (DropsMessage /\ fates'[Len(fates')].fate \in {"invalid", "unknown"})
                => /\ handler # 0 /\ dPc \in {"check", "translate"}
                   /\ delivered' = delivered /\ active' = active
                   /\ dPc' = "waiting"
          /\ EntersHandler => TranslateFirstCalls(cur, onMidiRecv)
          /\ DropsMessage => ~TranslateFirstCalls(cur, onMidiRecv)
          /\ (dPc \in {"lookup", "check", "translate", "call"} /\ dPc' # dPc
               /\ ~exited')
                => (EntersHandler \/ DropsMessage
                      \/ dPc' \in {"check", "translate", "call"})]_vars

\* C20 witness: with the handler defined an Invalid message was dropped and
\* a note delivered; the handler removed the global, and the untranslatable
\* message that followed was dropped at the lookup.
C20_Witness ==
    /\ Len(fates) = 3
    /\ fates[1].fate = "invalid" /\ fates[2].fate = "delivered"
    /\ fates[3].fate = "nohandler" /\ fates[3].msg.kind = "SysEx"
    /\ Len(delivered) = 1 /\ dPc = "waiting"

====
